---- MODULE Spec2Model ----
(***************************************************************************)
(* A model of src/main.js: the weighted sampler weightedRandom, and the    *)
(* presentation layer built on it (the option list and its add / remove /  *)
(* edit handlers, spin with its setTimeout callback, runSimulation).       *)
(*                                                                         *)
(* Four specifications share the definitions:                              *)
(*   SpecSampler   weightedRandom applied to an argument drawn from        *)
(*                 bounded sets (absent, empty, zero / negative / NaN      *)
(*                 weights);                                               *)
(*   SpecHandlers  spin, its timer callback and runSimulation (its trial   *)
(*                 loop one iteration per step) applied to an option list  *)
(*                 drawn from bounded sets;                                *)
(*   Spec          the page: initialize, then any interleaving of the      *)
(*                 event handlers;                                         *)
(*   FairSpec      the page with the option list kept short, under         *)
(*                 fairness of the timer callback and of a started         *)
(*                 handler running to its end.                             *)
(*                                                                         *)
(* Conventions.  Positions are 1-based (JS index + 1).  A weight is an     *)
(* integer or NaN.  Math.random() returns u in [0,1); u is modelled as     *)
(* k / DrawCells(items) for k in 0 .. DrawCells(items)-1.  DrawCells is a  *)
(* multiple of items.length and of the (positive, integer) total weight,   *)
(* so Math.floor(u * items.length) and the sign of u * totalWeight minus   *)
(* an integer are the same for every u of one cell [k/D, (k+1)/D): the     *)
(* cells are the draws.                                                    *)
(***************************************************************************)
EXTENDS Integers, Sequences, FiniteSets, TLC

(* ------------------------------ bounds -------------------------------- *)

\* longest argument list of SpecSampler
MaxItems == 3
\* weights of SpecSampler range over -MaxNegWeight .. MaxWeight, and NaN
MaxWeight == 2
MaxNegWeight == 1
\* cells per unit of the draw's resolution
Granularity == 1
\* trials of the simulation loop that are followed
MaxTrials == 3
\* longest option list of SpecHandlers
MaxListLen == 2
\* longest option list of FairSpec
MaxFairLen == 3

(* ---------------------------- JS numbers ------------------------------ *)

\* the one non-integer number the program meets: parseInt's failure value
NaN == -1000
\* weightedRandom's "no winner" (return null), as a position
Null == 0

IsNaN(x) == x = NaN
\* a + b
NumAdd(a, b) == IF IsNaN(a) \/ IsNaN(b) THEN NaN ELSE a + b
\* a - b
NumSub(a, b) == IF IsNaN(a) \/ IsNaN(b) THEN NaN ELSE a - b
\* a * b
NumMul(a, b) == IF IsNaN(a) \/ IsNaN(b) THEN NaN ELSE a * b
\* a <= 0 : every comparison with NaN is false
LeqZero(a) == ~IsNaN(a) /\ a <= 0
\* a < 0
LtZero(a) == ~IsNaN(a) /\ a < 0

Names == {"A", "B"}
Weights == ((0 - MaxNegWeight) .. MaxWeight) \cup {NaN}
Entries == [name : Names, weight : Weights]

RECURSIVE SeqsUpTo(_, _)
\* every sequence over S of length 0 .. n
SeqsUpTo(S, n) ==
  IF n = 0 THEN {<<>>}
  ELSE LET shorter == SeqsUpTo(S, n - 1)
       IN shorter \cup {Append(s, e) : s \in {t \in shorter : Len(t) = n - 1}, e \in S}

(* --------------------------- weightedRandom --------------------------- *)

RECURSIVE SumFrom(_, _, _)
\* items.reduce((sum, item) => sum + item.weight, 0), from position i on
SumFrom(items, i, sum) ==
  IF i > Len(items) THEN sum
  ELSE SumFrom(items, i + 1, NumAdd(sum, items[i].weight))

TotalWeight(items) == SumFrom(items, 1, 0)

\* the resolution of the draw: u = k / DrawCells(items)
DrawCells(items) ==
  LET n == IF Len(items) = 0 THEN 1 ELSE Len(items)
      t == TotalWeight(items)
  IN Granularity * n * (IF IsNaN(t) \/ t <= 0 THEN 1 ELSE t)

Draws(items) == 0 .. (DrawCells(items) - 1)

\* a range slip: Math.floor(Math.random() * (items.length - 1))
RandomIndexShort(items, k) ==
  ((k * (Len(items) - 1)) \div DrawCells(items)) + 1

\* Math.floor(Math.random() * items.length), as a position
RandomIndex(items, k) == ((k * Len(items)) \div DrawCells(items)) + 1

RECURSIVE LoopNoFallback(_, _, _, _)
\* the loop with the fallback forgotten: falling off the loop returns nothing
LoopNoFallback(items, i, random, cells) ==
  IF i > Len(items) THEN [ret |-> Null, via |-> "fallback"]
  ELSE LET r == NumSub(random, NumMul(items[i].weight, cells))
       IN IF LtZero(r) THEN [ret |-> i, via |-> "loop"]
          ELSE LoopNoFallback(items, i + 1, r, cells)

RECURSIVE LoopLeq(_, _, _, _)
\* the loop with an off-by-one comparison: random <= 0 in place of random < 0
LoopLeq(items, i, random, cells) ==
  IF i > Len(items) THEN [ret |-> Len(items), via |-> "fallback"]
  ELSE LET r == NumSub(random, NumMul(items[i].weight, cells))
       IN IF LeqZero(r) THEN [ret |-> i, via |-> "loop"]
          ELSE LoopLeq(items, i + 1, r, cells)

RECURSIVE Loop(_, _, _, _)
\* for (const item of items) { random -= item.weight; if (random < 0) return item }
\* and the fallback after it.  random is held as random * cells, for
\* cells = DrawCells(items).
Loop(items, i, random, cells) ==
  IF i > Len(items) THEN [ret |-> Len(items), via |-> "fallback"]
  ELSE LET r == NumSub(random, NumMul(items[i].weight, cells))
       IN IF LtZero(r) THEN [ret |-> i, via |-> "loop"]
          ELSE Loop(items, i + 1, r, cells)

\* weightedRandom(items) with Math.random() = k / DrawCells(items).
\* arg.given is FALSE for an absent (null / undefined) argument.
\* ret is the returned item's position (Null for null), via the return taken.
weightedRandom(arg, k) ==
  IF ~arg.given \/ Len(arg.items) = 0 THEN [ret |-> Null, via |-> "null"]
  ELSE LET items == arg.items
           totalWeight == TotalWeight(items)
       IN IF LeqZero(totalWeight)
          THEN [ret |-> RandomIndex(items, k), via |-> "uniform"]
          ELSE Loop(items, 1, NumMul(k, totalWeight), DrawCells(items))

Given(items) == [given |-> TRUE, items |-> items]
Absent == [given |-> FALSE, items |-> <<>>]

(* -------------------------- presentation layer ----------------------- *)

MAX_OPTIONS == 10
TRIAL_COUNT == 1000
\* the trial loop's bound i < TRIAL_COUNT, capped by MaxTrials
TrialLimit == IF TRIAL_COUNT < MaxTrials THEN TRIAL_COUNT ELSE MaxTrials

\* `選択肢 ${n}`, the name addOption and initialize give (written opt<n>)
DefaultName(n) ==
  <<"opt1", "opt2", "opt3", "opt4", "opt5", "opt6",
    "opt7", "opt8", "opt9", "opt10", "opt11", "opt12">>[n]

\* what can be typed into a name field
NameTexts == {"A", "opt2"}
\* what a weight field (type=number) can hand to the change listener
WeightTexts == {"", "0", "-1", "2"}

\* parseInt(text, 10) on the weight texts
ParseIntText(t) ==
  CASE t = "" -> NaN
    [] t = "0" -> 0
    [] t = "-1" -> 0 - 1
    [] t = "2" -> 2

\* parseInt(opt.weight, 10) on a stored weight: the number is written out in
\* decimal and read back, NaN is written "NaN" and read back as NaN
ParseIntNum(w) == IF IsNaN(w) THEN NaN ELSE w

\* x || 1 : 0 and NaN are falsy, every other number is kept
OrOne(x) == IF IsNaN(x) \/ x = 0 THEN 1 ELSE x

\* options.map((opt) => ({name: opt.name, weight: parseInt(opt.weight, 10) || 1}))
ToItems(opts) ==
  [i \in 1 .. Len(opts) |->
     [name |-> opts[i].name, weight |-> OrOne(ParseIntNum(opts[i].weight))]]

NamesOf(items) == {items[i].name : i \in 1 .. Len(items)}

RECURSIVE TargetFrom(_, _, _)
\* for (const item of items) { if (item.name === winner.name) { ...; break } ... }
\* the position of the sector the stop angle is taken in (0: none, angle 0)
TargetFrom(items, winner, i) ==
  IF i > Len(items) THEN 0
  ELSE IF items[i].name = winner.name THEN i
       ELSE TargetFrom(items, winner, i + 1)

TargetSector(items, winner) == TargetFrom(items, winner, 1)

\* items.find((it) => it.name === name)
FindByName(items, name) ==
  items[CHOOSE i \in 1 .. Len(items) :
          /\ items[i].name = name
          /\ \A j \in 1 .. (i - 1) : items[j].name # name]

\* the rows runSimulation appends: per name its count and the theoretical
\* share as a fraction (weight / totalWeight, or 1 / items.length)
ResultRows(items, results) ==
  LET totalWeight == TotalWeight(items)
  IN [n \in DOMAIN results |->
        [count |-> results[n],
         num |-> IF totalWeight > 0 THEN FindByName(items, n).weight ELSE 1,
         den |-> IF totalWeight > 0 THEN totalWeight ELSE Len(items)]]

NoRows == [n \in {} |-> 0]
NoSample == [pos |-> 0, name |-> ""]
EmptyText == [kind |-> "empty", name |-> ""]
DotsText == [kind |-> "dots", name |-> ""]
\* `結果: ${name}`
ResultTextOf(name) == [kind |-> "result", name |-> name]

(* ------------------------------- state -------------------------------- *)

VARIABLES
  options,           \* the option list (main.js:46)
  spinButtonDisabled,\* spinButton.disabled
  resultText,        \* resultText.textContent
  wheel,             \* the sector the canvas rotation points at (0: untouched)
  timers,            \* pending setTimeout callbacks: [winner, sector]
  simulationResult,  \* the rows shown in simulationResultDiv
  alertMsg,          \* the alert the last handler raised ("none" if none)
  pc,                \* "idle", or "sim" inside runSimulation's trial loop
  items,             \* runSimulation's items
  results,           \* runSimulation's results
  trial,             \* runSimulation's loop counter i
  calls,             \* weightedRandom calls made in the trial loop so far
  sampled,           \* position and name of the winner spin last sampled
  supplied,          \* SpecHandlers: the option list as supplied
  ran,               \* SpecHandlers: a handler has been started
  sArg,              \* SpecSampler: the argument of the call
  sCall              \* SpecSampler: the call made ([done, k, ret, via])

pageVars == <<options, spinButtonDisabled, resultText, wheel, timers,
              simulationResult, alertMsg, sampled>>
simVars == <<pc, items, results, trial, calls>>
samplerVars == <<sArg, sCall>>
vars == <<pageVars, simVars, supplied, ran, samplerVars>>

\* the page right after the DOMContentLoaded handler, with option list opts
PageWith(opts) ==
  /\ options = opts
  /\ spinButtonDisabled = FALSE
  /\ resultText = EmptyText
  /\ wheel = 0
  /\ timers = <<>>
  /\ simulationResult = NoRows
  /\ alertMsg = "none"
  /\ sampled = NoSample
  /\ pc = "idle"
  /\ items = <<>>
  /\ results = NoRows
  /\ trial = 0
  /\ calls = 0

(* ------------------------------ handlers ------------------------------ *)
(* Every handler runs to completion (pc = "idle" between handlers); only   *)
(* runSimulation's trial loop is followed one iteration per step, during   *)
(* which nothing else runs.  drawRoulette and renderOptions repaint from   *)
(* options and change none of the state below.                             *)

frame == <<supplied, sArg, sCall>>

\* addOption with an off-by-one guard: options.length > MAX_OPTIONS
AddOptionOffByOne ==
  /\ pc = "idle"
  /\ IF Len(options) > MAX_OPTIONS
     THEN /\ alertMsg' = "max"
          /\ UNCHANGED options
     ELSE /\ options' = Append(options,
                          [name |-> DefaultName(Len(options) + 1), weight |-> 1])
          /\ alertMsg' = "none"
  /\ UNCHANGED <<spinButtonDisabled, resultText, wheel, timers,
                 simulationResult, sampled, simVars, frame>>

\* addOption(), main.js:84-96
AddOption ==
  /\ pc = "idle"
  /\ IF Len(options) >= MAX_OPTIONS
     THEN /\ alertMsg' = "max"
          /\ UNCHANGED options
     ELSE /\ options' = Append(options,
                          [name |-> DefaultName(Len(options) + 1), weight |-> 1])
          /\ alertMsg' = "none"
  /\ UNCHANGED <<spinButtonDisabled, resultText, wheel, timers,
                 simulationResult, sampled, simVars, frame>>

\* options.splice(index, 1), index a position of the list (0-based)
Splice(opts, index) ==
  [j \in 1 .. (Len(opts) - 1) |-> IF j <= index THEN opts[j] ELSE opts[j + 1]]

\* removeOption(index), main.js:102-110.  The page disables the remove
\* buttons while options.length <= 2 (renderOptions, 74-76); the call is
\* followed there all the same, so that removeOption's own guard decides.
RemoveOption(index) ==
  /\ pc = "idle"
  /\ index \in 0 .. (Len(options) - 1)
  /\ IF Len(options) <= 2
     THEN /\ alertMsg' = "min"
          /\ UNCHANGED options
     ELSE /\ options' = Splice(options, index)
          /\ alertMsg' = "none"
  /\ UNCHANGED <<spinButtonDisabled, resultText, wheel, timers,
                 simulationResult, sampled, simVars, frame>>

\* the change listener (287-297) and updateOption(index, key, value), 118-124
UpdateOption(index, key, text) ==
  /\ pc = "idle"
  /\ index \in 0 .. (Len(options) - 1)
  /\ IF key = "name"
     THEN /\ text \in NameTexts
          /\ options' = [options EXCEPT ![index + 1].name = text]
     ELSE /\ key = "weight"
          /\ text \in WeightTexts
          /\ options' = [options EXCEPT ![index + 1].weight = ParseIntText(text)]
  /\ alertMsg' = "none"
  /\ UNCHANGED <<spinButtonDisabled, resultText, wheel, timers,
                 simulationResult, sampled, simVars, frame>>

\* the setTimeout callback with the winner named by its position in options
\* when it fires, not by the item sampled
TimerFireByPosition ==
  /\ pc = "idle"
  /\ timers # <<>>
  /\ resultText' = ResultTextOf(options[1].name)
  /\ spinButtonDisabled' = FALSE
  /\ wheel' = Head(timers).sector
  /\ timers' = Tail(timers)
  /\ alertMsg' = "none"
  /\ UNCHANGED <<options, simulationResult, sampled, simVars, frame>>

\* the setTimeout callback of spin, main.js:226-233 (timers of one duration
\* fire in the order they were set)
TimerFire ==
  /\ pc = "idle"
  /\ timers # <<>>
  /\ resultText' = ResultTextOf(Head(timers).winner.name)
  /\ spinButtonDisabled' = FALSE
  /\ wheel' = Head(timers).sector
  /\ timers' = Tail(timers)
  /\ alertMsg' = "none"
  /\ UNCHANGED <<options, simulationResult, sampled, simVars, frame>>

\* spin(), main.js:180-234, on a click of the spin button (a disabled button
\* receives no click).  The stop angle is a point inside the target sector
\* (5% inside its borders); the wheel is followed by that sector's position.
Spin(k) ==
  /\ pc = "idle"
  /\ ~spinButtonDisabled
  /\ k \in Draws(ToItems(options))
  /\ LET spinItems == ToItems(options)
     IN IF Len(spinItems) < 2
        THEN /\ alertMsg' = "need2"
             /\ UNCHANGED <<spinButtonDisabled, resultText, wheel, timers, sampled>>
        ELSE /\ alertMsg' = "none"
             /\ resultText' = DotsText
             /\ LET winner == weightedRandom(Given(spinItems), k).ret
                IN IF winner = Null
                   THEN /\ spinButtonDisabled' = FALSE
                        /\ sampled' = [pos |-> Null, name |-> ""]
                        /\ UNCHANGED <<wheel, timers>>
                   ELSE /\ spinButtonDisabled' = TRUE
                        /\ sampled' = [pos |-> winner, name |-> spinItems[winner].name]
                        /\ wheel' = TargetSector(spinItems, spinItems[winner])
                        /\ timers' = Append(timers,
                             [winner |-> spinItems[winner],
                              sector |-> TargetSector(spinItems, spinItems[winner])])
  /\ UNCHANGED <<options, simulationResult, simVars, frame>>

\* runSimulation with an off-by-one guard: items.length < 1
SimStartOffByOne ==
  /\ pc = "idle"
  /\ LET simItems == ToItems(options)
     IN IF Len(simItems) < 1
        THEN /\ alertMsg' = "need2"
             /\ UNCHANGED simVars
        ELSE /\ alertMsg' = "none"
             /\ items' = simItems
             /\ results' = [n \in NamesOf(simItems) |-> 0]
             /\ trial' = 0
             /\ calls' = 0
             /\ pc' = "sim"
  /\ UNCHANGED <<options, spinButtonDisabled, resultText, wheel, timers,
                 simulationResult, sampled, frame>>

\* runSimulation(), main.js:239-254: items, the guard, results zeroed
SimStart ==
  /\ pc = "idle"
  /\ LET simItems == ToItems(options)
     IN IF Len(simItems) < 2
        THEN /\ alertMsg' = "need2"
             /\ UNCHANGED simVars
        ELSE /\ alertMsg' = "none"
             /\ items' = simItems
             /\ results' = [n \in NamesOf(simItems) |-> 0]
             /\ trial' = 0
             /\ calls' = 0
             /\ pc' = "sim"
  /\ UNCHANGED <<options, spinButtonDisabled, resultText, wheel, timers,
                 simulationResult, sampled, frame>>

\* one iteration that also uses up the winner: winner.weight-- on the item
SimTrialConsuming(k) ==
  /\ pc = "sim"
  /\ trial < TrialLimit
  /\ k \in Draws(items)
  /\ LET winner == weightedRandom(Given(items), k).ret
     IN /\ results' = [results EXCEPT ![items[winner].name] = @ + 1]
        /\ items' = [items EXCEPT ![winner].weight = @ - 1]
  /\ calls' = calls + 1
  /\ trial' = trial + 1
  /\ UNCHANGED <<pc, pageVars, frame>>

\* one iteration that counts the trial but skips a winner already counted
SimTrialOncePerName(k) ==
  /\ pc = "sim"
  /\ trial < TrialLimit
  /\ k \in Draws(items)
  /\ LET winner == weightedRandom(Given(items), k).ret
     IN results' = [results EXCEPT ![items[winner].name] = IF @ = 0 THEN 1 ELSE @]
  /\ calls' = calls + 1
  /\ trial' = trial + 1
  /\ UNCHANGED <<pc, items, pageVars, frame>>

\* one iteration of the trial loop, main.js:256-261
SimTrial(k) ==
  /\ pc = "sim"
  /\ trial < TrialLimit
  /\ k \in Draws(items)
  /\ LET winner == weightedRandom(Given(items), k).ret
     IN IF winner # Null
        THEN results' = [results EXCEPT ![items[winner].name] = @ + 1]
        ELSE UNCHANGED results
  /\ calls' = calls + 1
  /\ trial' = trial + 1
  /\ UNCHANGED <<pc, items, pageVars, frame>>

\* the loop is over: the rows are shown, main.js:263-280, and the handler returns
SimShow ==
  /\ pc = "sim"
  /\ trial >= TrialLimit
  /\ simulationResult' = ResultRows(items, results)
  /\ pc' = "idle"
  /\ items' = <<>>
  /\ results' = NoRows
  /\ trial' = 0
  /\ calls' = 0
  /\ UNCHANGED <<options, spinButtonDisabled, resultText, wheel, timers,
                 alertMsg, sampled, frame>>

(* -------------------------------- Spec -------------------------------- *)

\* initialize(), main.js:311-318
initialize ==
  PageWith(<<[name |-> DefaultName(1), weight |-> 1],
             [name |-> DefaultName(2), weight |-> 1]>>)

Init ==
  /\ initialize
  /\ supplied = <<>>
  /\ ran = FALSE
  /\ sArg = Absent
  /\ sCall = [done |-> FALSE, k |-> 0, ret |-> Null, via |-> "none"]

\* The events followed on the page: the add button, the last option's remove
\* button, the first option's two fields, the spin and simulation buttons,
\* the timer; of spin's draw the first and the last cell, of the trial
\* loop's draws the first cell (SpecHandlers follows them all).
PageNameTexts == {"opt2"}
PageWeightTexts == {"-1"}
EdgeDraws(list) == {0, DrawCells(list) - 1}

Add == AddOption /\ UNCHANGED ran
Remove == RemoveOption(Len(options) - 1) /\ UNCHANGED ran
EditName == (\E text \in PageNameTexts : UpdateOption(0, "name", text)) /\ UNCHANGED ran
EditWeight == (\E text \in PageWeightTexts : UpdateOption(0, "weight", text)) /\ UNCHANGED ran
SpinClick == (\E k \in EdgeDraws(ToItems(options)) : Spin(k)) /\ UNCHANGED ran
Timer == TimerFire /\ UNCHANGED ran
SimClick == SimStart /\ UNCHANGED ran
SimStep == SimTrial(0) /\ UNCHANGED ran
SimEnd == SimShow /\ UNCHANGED ran

Next ==
  \/ Add
  \/ Remove
  \/ EditName
  \/ EditWeight
  \/ SpinClick
  \/ Timer
  \/ SimClick
  \/ SimStep
  \/ SimEnd

Spec == Init /\ [][Next]_vars

(* ------------------------------ FairSpec ------------------------------ *)
(* The page with the list kept short: the add button is used while the     *)
(* list is shorter than MaxFairLen.  A handler that has started runs to    *)
(* its end, and a timer whose delay has passed gets its turn between the   *)
(* other handlers.                                                         *)

NextFair ==
  \/ Len(options) < MaxFairLen /\ Add
  \/ Remove
  \/ EditName
  \/ EditWeight
  \/ SpinClick
  \/ Timer
  \/ SimClick
  \/ SimStep
  \/ SimEnd

FairSpec ==
  /\ Init
  /\ [][NextFair]_vars
  /\ WF_vars(SimStep)
  /\ WF_vars(SimEnd)
  /\ SF_vars(Timer)

(* ---------------------------- SpecHandlers ---------------------------- *)

\* the weights an option can hold: 1 (addOption) or what the change listener stored
StoredWeights == {1} \cup {ParseIntText(t) : t \in WeightTexts}

OptionLists == SeqsUpTo([name : Names, weight : StoredWeights], MaxListLen)

InitHandlers ==
  /\ \E opts \in OptionLists : PageWith(opts) /\ supplied = opts
  /\ ran = FALSE
  /\ sArg = Absent
  /\ sCall = [done |-> FALSE, k |-> 0, ret |-> Null, via |-> "none"]

\* of the draws, the first cell of every run of cells with one outcome:
\* every outcome weightedRandom has on the list is the outcome of one of them
OutcomeDraws(list) ==
  {k \in Draws(list) :
     \/ k = 0
     \/ weightedRandom(Given(list), k).ret # weightedRandom(Given(list), k - 1).ret}

NextHandlers ==
  \/ ~ran /\ (\E k \in OutcomeDraws(ToItems(options)) : Spin(k)) /\ ran' = TRUE
  \/ ~ran /\ SimStart /\ ran' = TRUE
  \/ TimerFire /\ UNCHANGED ran
  \/ (\E k \in OutcomeDraws(items) : SimTrial(k)) /\ UNCHANGED ran
  \/ SimShow /\ UNCHANGED ran

SpecHandlers == InitHandlers /\ [][NextHandlers]_vars

(* ---------------------------- SpecSampler ----------------------------- *)

NotCalled == [done |-> FALSE, k |-> 0, ret |-> Null, via |-> "none"]

SamplerInputs == {Absent} \cup {Given(s) : s \in SeqsUpTo(Entries, MaxItems)}

InitSampler ==
  /\ sArg \in SamplerInputs
  /\ sCall = NotCalled
  /\ PageWith(<<>>)
  /\ supplied = <<>>
  /\ ran = FALSE

\* one call of weightedRandom(sArg)
SamplerCall ==
  /\ ~sCall.done
  /\ \E k \in Draws(sArg.items) :
       LET r == weightedRandom(sArg, k)
       IN sCall' = [done |-> TRUE, k |-> k, ret |-> r.ret, via |-> r.via]
  /\ UNCHANGED <<sArg, pageVars, simVars, supplied, ran>>

NextSampler == SamplerCall

SpecSampler == InitSampler /\ [][NextSampler]_vars

(* ----------------------- claims on weightedRandom --------------------- *)

NonEmptyCall == sCall.done /\ sArg.given /\ Len(sArg.items) > 0

\* C1: weightedRandom returns null exactly when the list is absent or empty,
\* and for a non-empty list (whatever its weights) the item at one of the
\* list's own positions.
C1_ReturnsItemOrNull ==
  sCall.done =>
    /\ (sCall.ret = Null) <=> (~sArg.given \/ Len(sArg.items) = 0)
    /\ (sArg.given /\ Len(sArg.items) > 0) => sCall.ret \in 1 .. Len(sArg.items)

\* a call on a list with a zero and a negative weight returned its last item
C1_Witness ==
  /\ NonEmptyCall
  /\ \E i, j \in 1 .. Len(sArg.items) :
       sArg.items[i].weight = 0 /\ LtZero(sArg.items[j].weight)
  /\ sCall.ret = Len(sArg.items)
  /\ Len(sArg.items) >= 2

\* the calls that take the weighted branch: totalWeight > 0
WeightedCase ==
  /\ NonEmptyCall
  /\ ~IsNaN(TotalWeight(sArg.items))
  /\ TotalWeight(sArg.items) > 0

RECURSIVE CumWeight(_, _)
\* weight_1 + ... + weight_i
CumWeight(list, i) == IF i = 0 THEN 0 ELSE CumWeight(list, i - 1) + list[i].weight

\* r - (weight_1 + ... + weight_i) < 0, for r = (k / DrawCells) * totalWeight
RunningNegative(list, k, i) ==
  k * TotalWeight(list) < CumWeight(list, i) * DrawCells(list)

\* the number of draws for which position i is returned
Share(list, i) ==
  Cardinality({k \in Draws(list) : weightedRandom(Given(list), k).ret = i})

FirstNegativeReturned ==
  /\ sCall.via = "loop"
  /\ RunningNegative(sArg.items, sCall.k, sCall.ret)
  /\ \A j \in 1 .. (sCall.ret - 1) : ~RunningNegative(sArg.items, sCall.k, j)

ProportionalShares ==
  \A i \in 1 .. Len(sArg.items) :
    Share(sArg.items, i) * TotalWeight(sArg.items)
      = sArg.items[i].weight * DrawCells(sArg.items)

NoNegativeWeight == \A i \in 1 .. Len(sArg.items) : sArg.items[i].weight >= 0

DegenerateCase == NonEmptyCall /\ LeqZero(TotalWeight(sArg.items))

\* C3: when the weights sum to 0 or less the item at floor(u * N) is returned,
\* never null, and each of the N items for an equal share of the draws.
C3_UniformWhenDegenerate ==
  DegenerateCase =>
    LET n == Len(sArg.items)
        d == DrawCells(sArg.items)
    IN /\ sCall.via = "uniform"
       /\ sCall.ret \in 1 .. n
       /\ (sCall.ret - 1) * d <= sCall.k * n
       /\ sCall.k * n < sCall.ret * d
       /\ \A i \in 1 .. n : Share(sArg.items, i) * n = d

\* a degenerate call on unequal weights, negative ones dominating, returned
\* an item other than the first
C3_Witness ==
  /\ DegenerateCase
  /\ Len(sArg.items) >= 2
  /\ sArg.items[1].weight = 1
  /\ LtZero(sArg.items[2].weight)
  /\ sCall.ret = 2

(* ----------------------- claims on the handlers ----------------------- *)

RECURSIVE SumOver(_, _)
\* the sum of f over the names S
SumOver(f, S) ==
  IF S = {} THEN 0
  ELSE LET n == CHOOSE x \in S : TRUE
       IN f[n] + SumOver(f, S \ {n})

ShownCounts == [n \in DOMAIN simulationResult |-> simulationResult[n].count]

\* C4: in a simulation the tally has one entry per distinct name of the items,
\* every count is >= 0, after k trials the sampler has been called k times and
\* the counts sum to k; the loop ends after TrialLimit trials, and the rows
\* shown hold one count per distinct name, summing to TrialLimit.
C4_TallyComplete ==
  /\ pc = "sim" =>
       /\ Len(items) >= 2
       /\ DOMAIN results = NamesOf(ToItems(supplied))
       /\ \A n \in DOMAIN results : results[n] >= 0
       /\ trial \in 0 .. TrialLimit
       /\ calls = trial
       /\ SumOver(results, DOMAIN results) = trial
  /\ simulationResult # NoRows =>
       /\ DOMAIN simulationResult = NamesOf(ToItems(supplied))
       /\ \A n \in DOMAIN simulationResult : simulationResult[n].count >= 0
       /\ SumOver(ShownCounts, DOMAIN ShownCounts) = TrialLimit

\* the rows are shown for two options sharing a name: one row, with every trial
C4_Witness ==
  /\ Len(supplied) = 2
  /\ supplied[1].name = supplied[2].name
  /\ simulationResult # NoRows
  /\ DOMAIN simulationResult = {supplied[1].name}
  /\ simulationResult[supplied[1].name].count = TrialLimit
  /\ TrialLimit >= 2

\* C5 as claimed: every weight handed to the sampler, by runSimulation in its
\* items and by spin in the item it got back, is an integer >= 1.
C5_Original ==
  /\ pc = "sim" => \A i \in 1 .. Len(items) : ~IsNaN(items[i].weight) /\ items[i].weight >= 1
  /\ \A t \in 1 .. Len(timers) :
       ~IsNaN(timers[t].winner.weight) /\ timers[t].winner.weight >= 1

\* C6: a spin or a simulation on fewer than 2 options raises the alert and does
\* nothing else: no sampler call, no tally made or shown, the spin button not
\* disabled, no timer set, result text, wheel and option list as they were.
C6_RejectsShortLists ==
  (ran /\ Len(supplied) < 2) =>
    /\ alertMsg = "need2"
    /\ sampled = NoSample
    /\ calls = 0
    /\ pc = "idle"
    /\ results = NoRows
    /\ simulationResult = NoRows
    /\ ~spinButtonDisabled
    /\ timers = <<>>
    /\ resultText = EmptyText
    /\ wheel = 0
    /\ options = supplied

\* a handler was started on a single option and was rejected
C6_Witness ==
  /\ ran
  /\ Len(supplied) = 1
  /\ alertMsg = "need2"
  /\ pc = "idle"

\* C7: the option list stays as supplied through spin, its callback and
\* runSimulation, and the items of the trial loop stay, call after call, the
\* items built from it: same length, order, names and weights.
C7_InputsUnchanged ==
  /\ options = supplied
  /\ pc = "sim" => items = ToItems(supplied)

\* the trial loop has made all its sampler calls on two unequal items
C7_Witness ==
  /\ pc = "sim"
  /\ trial = TrialLimit
  /\ calls >= 2
  /\ Len(items) = 2
  /\ items[1] # items[2]
  /\ \E n \in DOMAIN results : results[n] = TrialLimit

\* C8 as claimed: the sector the stop angle is taken in is the sector at the
\* position of the item the sampler returned.
C8_Original ==
  \A t \in 1 .. Len(timers) : timers[t].sector = sampled.pos

\* C9: the option list always holds 2 to MAX_OPTIONS options; an add at
\* MAX_OPTIONS options and a remove at 2 options raise their alerts and leave
\* the list as it was; the fewer-than-2 alert of spin and runSimulation is
\* never raised.
C9_ListSizeKept ==
  /\ [](Len(options) \in 2 .. MAX_OPTIONS /\ alertMsg # "need2")
  /\ [][/\ (Len(options) = MAX_OPTIONS /\ alertMsg' = "max") => options' = options
        /\ (Len(options) = 2 /\ alertMsg' = "min") => options' = options
        /\ alertMsg' = "max" => Len(options) = MAX_OPTIONS
        /\ alertMsg' = "min" => Len(options) = 2]_vars

\* the add button was used on a full list
C9_Witness ==
  /\ Len(options) = MAX_OPTIONS
  /\ alertMsg = "max"

\* C10: while the spin button is disabled exactly one callback is pending and
\* no spin starts; the button is enabled again only by that callback, which
\* shows the name of the winner sampled when the spin started; and the
\* callback does fire, whatever other events come in between.
C10_SpinCompletes ==
  /\ [](spinButtonDisabled <=> Len(timers) = 1)
  /\ [](Len(timers) <= 1)
  /\ [][spinButtonDisabled => sampled' = sampled]_vars
  /\ [][(spinButtonDisabled /\ ~spinButtonDisabled') =>
          /\ timers' = <<>>
          /\ resultText' = ResultTextOf(sampled.name)]_vars
  /\ [][(spinButtonDisabled /\ spinButtonDisabled') => resultText' = DotsText]_vars
  /\ spinButtonDisabled ~>
       (~spinButtonDisabled /\ resultText = ResultTextOf(sampled.name))

\* a spin has completed showing a winner whose name has since been edited away
C10_Witness ==
  /\ ~spinButtonDisabled
  /\ timers = <<>>
  /\ sampled.pos = 1
  /\ resultText = ResultTextOf(sampled.name)
  /\ sampled.name \notin NamesOf(options)

====
